---- MODULE Spec2Model ----
(***************************************************************************)
(* Model of couchbase-lite-core-sys/couch_lite_log_retrans.cpp: the log    *)
(* callback relay between the LiteCore logging facility and a registered   *)
(* C4LogCallbackR.                                                         *)
(*                                                                         *)
(* Every thread is a program counter named after the source line it is     *)
(* about to execute.  g_rust_log_callback is a std::atomic: it has one     *)
(* modification order and every load returns one whole stored value, so    *)
(* its store and load are single steps.  The variables called, calls, ev,  *)
(* cur, lastStore, lastReg and overlapped are history variables: they      *)
(* record what has happened and are read by no step of the program.        *)
(* What a trampoline invocation did is kept until it returns.              *)
(***************************************************************************)
EXTENDS Integers, Sequences, FiniteSets, TLC

\* ------------------------------------------------------------- bounds ----
\* the c4log_setRustCallback calls of a behaviour; a trampoline invocation
\* leaves nothing behind, so the log events need no bound
MaxCalls == 2

\* ------------------------------------------------------------- inputs ----
\* two threads, each the host application's or the logging facility's: the
\* fewest with which a store races a load, another store, and two
\* trampoline invocations run at once
Threads == {1, 2}
nullptr == "nullptr"
Callbacks == {"A", "B"}
CallbackArgs == Callbacks \cup {nullptr}
\* the (level, callback) pairs the host application registers; the levels
\* are the C4LogLevel values kC4LogInfo and kC4LogError
SetCalls == {<<2, "A">>, <<4, "B">>, <<4, nullptr>>}
\* the (domain, level, fmt) triples of the log events
LogEvents == {<<"DB", 2, "f1">>, <<"Sync", 4, "f2">>}
VaLists == {"va"}

NoArgs == [none |-> TRUE]
NoEvent == [none |-> TRUE]
unset == "unset"
SetPcs == {"L17", "L18", "L19"}
TrampolinePcs == {"L10", "L11", "L12", "cb", "L14"}

VARIABLES
  pc,                   \* per thread: the line it is about to execute
  args,                 \* per thread: the actual parameters of its call
  local,                \* per thread: the local rust_log_callback of line 10
  g_rust_log_callback,  \* the sink
  lib,                  \* what the logging facility has installed
  called,               \* history: per thread, the calls its trampoline
                        \* invocation has made to registered callbacks
  calls,                \* history: the c4log_setRustCallback calls
  ev,                   \* history: per thread, the event being relayed
  cur,                  \* history: per thread, index of its call in calls
  lastStore,            \* history: the call that stored last into the sink
  lastReg,              \* history: the call that registered last
  overlapped            \* history: two c4log_setRustCallback calls overlapped

vars == <<pc, args, local, g_rust_log_callback, lib, called,
          calls, ev, cur, lastStore, lastReg, overlapped>>

NoLib == [level |-> 0, callback |-> nullptr, flag |-> FALSE]

Init ==
  /\ pc = [t \in Threads |-> "idle"]
  /\ args = [t \in Threads |-> NoArgs]
  /\ local = [t \in Threads |-> unset]
  /\ g_rust_log_callback = nullptr
  /\ lib = NoLib
  /\ called = [t \in Threads |-> <<>>]
  /\ calls = <<>>
  /\ ev = [t \in Threads |-> NoEvent]
  /\ cur = [t \in Threads |-> 0]
  /\ lastStore = 0
  /\ lastReg = 0
  /\ overlapped = FALSE

\* ---------------------------------------------- history bookkeeping ----
SetInProgress == {t \in Threads : pc[t] \in SetPcs}
Returned == {c \in 1..Len(calls) : calls[c].state = "returned"}

\* ------------------------------------------ c4log_setRustCallback ----
\* the host application calls c4log_setRustCallback(level, callback) on t
Call_c4log_setRustCallback(t, level, callback) ==
  /\ pc[t] = "idle"
  /\ Len(calls) < MaxCalls
  /\ pc' = [pc EXCEPT ![t] = "L17"]
  /\ args' = [args EXCEPT ![t] = [level |-> level, callback |-> callback]]
  /\ calls' = Append(calls, [level |-> level, callback |-> callback,
                             state |-> "invoked", regs |-> <<>>])
  /\ cur' = [cur EXCEPT ![t] = Len(calls) + 1]
  /\ overlapped' = (overlapped \/ SetInProgress # {})
  /\ UNCHANGED <<local, g_rust_log_callback, lib, called, ev, lastStore, lastReg>>

\* line 17: g_rust_log_callback.store(callback, relaxed)
\* a store that keeps the first callback registered
StoredValue_once(t) ==
  IF g_rust_log_callback = nullptr THEN args[t].callback
  ELSE g_rust_log_callback

\* a store that skips an empty callback
StoredValue_nonnull(t) ==
  IF args[t].callback = nullptr THEN g_rust_log_callback
  ELSE args[t].callback

StoredValue(t) == args[t].callback

\* a store that waits for a lock held while a callback runs
CanStore_locked(t) ==
  pc[t] = "L17" /\ \A u \in Threads \ {t} : pc[u] # "cb"

\* the store is an atomic operation: it waits for nothing
CanStore(t) == pc[t] = "L17"

Store(t) ==
  /\ CanStore(t)
  /\ g_rust_log_callback' = StoredValue(t)
  /\ pc' = [pc EXCEPT ![t] = "L18"]
  /\ lastStore' = cur[t]
  /\ calls' = [calls EXCEPT ![cur[t]].state = "stored"]
  /\ UNCHANGED <<args, local, lib, called, ev, cur, lastReg,
                 overlapped>>

\* line 18: c4log_writeToCallback(level, rust_log_callback, true)
\* a registration at a fixed level (kC4LogError)
Registration_level(t) ==
  [level |-> 4, callback |-> "rust_log_callback", flag |-> TRUE]

\* a registration of the user's callback itself
Registration_direct(t) ==
  [level |-> args[t].level, callback |-> args[t].callback, flag |-> TRUE]

\* a registration that never raises the level already installed
Registration_lowest(t) ==
  [level |-> IF lib.flag /\ lib.level < args[t].level
             THEN lib.level ELSE args[t].level,
   callback |-> "rust_log_callback", flag |-> TRUE]

Registration(t) ==
  [level |-> args[t].level, callback |-> "rust_log_callback", flag |-> TRUE]

\* a registration that does not wait for the store of its call
CanRegister_early(t) == pc[t] \in {"L17", "L18"}

\* line 18 follows line 17 in the body of c4log_setRustCallback
CanRegister(t) == pc[t] = "L18"

Register(t) ==
  /\ CanRegister(t)
  /\ lib' = Registration(t)
  /\ lastReg' = cur[t]
  /\ pc' = [pc EXCEPT ![t] = "L19"]
  /\ calls' = [calls EXCEPT ![cur[t]].state = "registered",
                            ![cur[t]].regs = Append(@, Registration(t))]
  /\ UNCHANGED <<args, local, g_rust_log_callback, called, ev, cur, lastStore, overlapped>>

\* line 19: c4log_setRustCallback returns
ReturnSet(t) ==
  /\ pc[t] = "L19"
  /\ pc' = [pc EXCEPT ![t] = "idle"]
  /\ args' = [args EXCEPT ![t] = NoArgs]
  /\ calls' = [calls EXCEPT ![cur[t]].state = "returned"]
  /\ cur' = [cur EXCEPT ![t] = 0]
  /\ UNCHANGED <<local, g_rust_log_callback, lib, called, ev, lastStore, lastReg, overlapped>>

\* --------------------------------------------- the logging facility ----
\* the facility routes an event of level l to the installed callback
c4log_willLog(l) == lib.callback = "rust_log_callback" /\ l >= lib.level

\* the calls that have executed their store
Stored == {c \in 1..Len(calls) : calls[c].state # "invoked"}

\* the event as generated, and the calls that had returned by then; loaded,
\* tested and invoked record the calls that had stored when the invocation
\* executed lines 10, 11 and 12, retAtCall those that had returned when it
\* executed line 12
NewEvent(d, l, fmt) ==
  [d |-> d, l |-> l, fmt |-> fmt, ret |-> Returned,
   loaded |-> {}, tested |-> {}, invoked |-> {}, retAtCall |-> {}]

\* a log event on thread t that the facility routes: rust_log_callback is
\* entered with (d, l, fmt, va)
LogDispatch(t, d, l, fmt, va) ==
  /\ pc[t] = "idle"
  /\ c4log_willLog(l)
  /\ pc' = [pc EXCEPT ![t] = "L10"]
  /\ args' = [args EXCEPT ![t] = [d |-> d, l |-> l, fmt |-> fmt, va |-> va]]
  /\ ev' = [ev EXCEPT ![t] = NewEvent(d, l, fmt)]
  /\ UNCHANGED <<local, g_rust_log_callback, lib, called, calls, cur,
                 lastStore, lastReg, overlapped>>

\* ------------------------------------------------ rust_log_callback ----
\* line 10: rust_log_callback = g_rust_log_callback.load(relaxed)
\* a load that is not atomic and races with a store of another value
LoadedValue_torn(t) ==
  IF \E u \in Threads : pc[u] = "L17" /\ args[u].callback # g_rust_log_callback
  THEN "torn"
  ELSE g_rust_log_callback

LoadedValue(t) == g_rust_log_callback

\* a load that takes the callback out of the sink (exchange)
Load_exchange(t) ==
  /\ pc[t] = "L10"
  /\ local' = [local EXCEPT ![t] = LoadedValue(t)]
  /\ g_rust_log_callback' = nullptr
  /\ pc' = [pc EXCEPT ![t] = "L11"]
  /\ ev' = [ev EXCEPT ![t].loaded = Stored]
  /\ UNCHANGED <<args, lib, called, calls, cur, lastStore,
                 lastReg, overlapped>>

Load(t) ==
  /\ pc[t] = "L10"
  /\ local' = [local EXCEPT ![t] = LoadedValue(t)]
  /\ pc' = [pc EXCEPT ![t] = "L11"]
  /\ ev' = [ev EXCEPT ![t].loaded = Stored]
  /\ UNCHANGED <<args, g_rust_log_callback, lib, called, calls, cur,
                 lastStore, lastReg, overlapped>>

\* line 11: if (rust_log_callback != nullptr)
\* a test that is missing
TestPasses_always(t) == TRUE

TestPasses(t) == local[t] # nullptr

Test(t) ==
  /\ pc[t] = "L11"
  /\ pc' = [pc EXCEPT ![t] = IF TestPasses(t) THEN "L12" ELSE "L14"]
  /\ ev' = [ev EXCEPT ![t].tested = Stored]
  /\ UNCHANGED <<args, local, g_rust_log_callback, lib, called, calls,
                 cur, lastStore, lastReg, overlapped>>

\* line 12: rust_log_callback(d, l, fmt): control enters the callback
\* a delivery out of a buffer the invocations share
Delivery_shared(t) ==
  LET u == CHOOSE x \in Threads : pc[x] \in TrampolinePcs
  IN  [cb |-> local[t], d |-> args[u].d, l |-> args[u].l,
       fmt |-> args[u].fmt, t |-> t]

\* a call through the sink read again at line 12
Delivery_reload(t) ==
  [cb |-> g_rust_log_callback, d |-> args[t].d, l |-> args[t].l,
   fmt |-> args[t].fmt, t |-> t]

Delivery(t) ==
  [cb |-> local[t], d |-> args[t].d, l |-> args[t].l, fmt |-> args[t].fmt,
   t |-> t]

\* a trampoline that calls the callback twice
Invoke_twice(t) ==
  /\ pc[t] = "L12"
  /\ called' = [called EXCEPT ![t] = Append(Append(@, Delivery(t)),
                                            Delivery(t))]
  /\ pc' = [pc EXCEPT ![t] = "cb"]
  /\ ev' = [ev EXCEPT ![t].invoked = Stored, ![t].retAtCall = Returned]
  /\ UNCHANGED <<args, local, g_rust_log_callback, lib, calls, cur,
                 lastStore, lastReg, overlapped>>

\* a trampoline that also calls the callback stored since its load
Invoke_current(t) ==
  /\ pc[t] = "L12"
  /\ called' = [called EXCEPT ![t] =
       IF g_rust_log_callback \in Callbacks \ {local[t]}
       THEN Append(Append(@, Delivery(t)),
                   [Delivery(t) EXCEPT !.cb = g_rust_log_callback])
       ELSE Append(@, Delivery(t))]
  /\ pc' = [pc EXCEPT ![t] = "cb"]
  /\ ev' = [ev EXCEPT ![t].invoked = Stored, ![t].retAtCall = Returned]
  /\ UNCHANGED <<args, local, g_rust_log_callback, lib, calls, cur,
                 lastStore, lastReg, overlapped>>

Invoke(t) ==
  /\ pc[t] = "L12"
  /\ called' = [called EXCEPT ![t] = Append(@, Delivery(t))]
  /\ pc' = [pc EXCEPT ![t] = "cb"]
  /\ ev' = [ev EXCEPT ![t].invoked = Stored, ![t].retAtCall = Returned]
  /\ UNCHANGED <<args, local, g_rust_log_callback, lib, calls, cur,
                 lastStore, lastReg, overlapped>>

\* the callback returns to line 13
CallbackReturn(t) ==
  /\ pc[t] = "cb"
  /\ pc' = [pc EXCEPT ![t] = "L14"]
  /\ UNCHANGED <<args, local, g_rust_log_callback, lib, called, calls, ev,
                 cur, lastStore, lastReg, overlapped>>

\* line 14: rust_log_callback returns
ReturnTrampoline(t) ==
  /\ pc[t] = "L14"
  /\ pc' = [pc EXCEPT ![t] = "idle"]
  /\ args' = [args EXCEPT ![t] = NoArgs]
  /\ local' = [local EXCEPT ![t] = unset]
  /\ called' = [called EXCEPT ![t] = <<>>]
  /\ ev' = [ev EXCEPT ![t] = NoEvent]
  /\ UNCHANGED <<g_rust_log_callback, lib, calls, cur, lastStore,
                 lastReg, overlapped>>

\* ------------------------------------------------------ specification ----
SetStep(t) == Store(t) \/ Register(t) \/ ReturnSet(t)
TrampolineStep(t) ==
  Load(t) \/ Test(t) \/ Invoke(t) \/ CallbackReturn(t) \/ ReturnTrampoline(t)
ThreadStep(t) == SetStep(t) \/ TrampolineStep(t)

Next ==
  \/ \E t \in Threads, c \in SetCalls :
       Call_c4log_setRustCallback(t, c[1], c[2])
  \/ \E t \in Threads : Store(t)
  \/ \E t \in Threads : Register(t)
  \/ \E t \in Threads : ReturnSet(t)
  \/ \E t \in Threads, e \in LogEvents, va \in VaLists :
       LogDispatch(t, e[1], e[2], e[3], va)
  \/ \E t \in Threads : Load(t)
  \/ \E t \in Threads : Test(t)
  \/ \E t \in Threads : Invoke(t)
  \/ \E t \in Threads : CallbackReturn(t)
  \/ \E t \in Threads : ReturnTrampoline(t)

Spec == Init /\ [][Next]_vars

\* every started operation keeps running: the threads are scheduled fairly,
\* the callback and c4log_writeToCallback return
FairSpec == Spec /\ \A t \in Threads : WF_vars(ThreadStep(t))

TypeOK ==
  /\ pc \in [Threads -> {"idle"} \cup SetPcs \cup TrampolinePcs]
  /\ local \in [Threads -> CallbackArgs \cup {unset}]
  /\ g_rust_log_callback \in CallbackArgs
  /\ Len(calls) <= MaxCalls
  /\ lastStore \in 0..MaxCalls
  /\ lastReg \in 0..MaxCalls
  /\ overlapped \in BOOLEAN

\* ------------------------------------------------------------ claims ----
Calls == 1..Len(calls)
\* the threads that are running the trampoline
Relaying == {t \in Threads : pc[t] \in TrampolinePcs}
\* the callback passed in call c; before the first call the sink is empty
cbOf(c) == IF c = 0 THEN nullptr ELSE calls[c].callback
\* the trampoline invocation on thread t has loaded and called as a relay
\* to callback cb does, and has called cb if it is through with line 12
RelaysTo(t, cb) ==
  /\ local[t] \in {unset, cb}
  /\ \A i \in 1..Len(called[t]) : called[t][i].cb = cb
  /\ (pc[t] = "L14" /\ cb # nullptr) => called[t] # <<>>

\* C1: when the c4log_setRustCallback calls made so far did not overlap one
\* another, a trampoline invocation that started after the latest call
\* returned, and that no later call has followed, loads the callback of
\* that latest call and delivers its event to that callback only.
C1_SerialCallsRelayLatest ==
  ~overlapped =>
    \A t \in Relaying :
      Len(calls) \in ev[t].ret => RelaysTo(t, cbOf(Len(calls)))

\* callback B replaced callback A and an event generated afterwards was
\* delivered to B
C1_Witness ==
  /\ ~overlapped
  /\ Len(calls) = 2 /\ cbOf(1) = "A" /\ cbOf(2) = "B"
  /\ \E t \in Relaying :
       /\ 2 \in ev[t].ret
       /\ pc[t] = "L14"
       /\ called[t] # <<>> /\ called[t][1].cb = "B"

\* C2 as stated: after the latest c4log_setRustCallback call, which passed
\* nullptr, has returned and while no later call has been made, no
\* trampoline invocation started since reaches a callback.
C2_Original ==
  \A t \in Relaying :
    (Len(calls) \in ev[t].ret /\ cbOf(Len(calls)) = nullptr)
      => called[t] = <<>>

\* C2 as amended: after a c4log_setRustCallback(level, nullptr) call has
\* returned, and for as long as no other call has stored into the sink
\* after that call's store, a trampoline invocation started since loads the
\* empty value and reaches no callback.
C2_NullLastStoreSilences ==
  \A t \in Relaying : \A c \in ev[t].ret :
    (cbOf(c) = nullptr /\ lastStore = c)
      => (local[t] \in {unset, nullptr} /\ called[t] = <<>>)

\* a callback was registered, nullptr replaced it, and a trampoline
\* invocation started after that is through without a call
C2_Witness ==
  \E t \in Relaying : \E c \in ev[t].ret :
    /\ cbOf(c) = nullptr /\ lastStore = c
    /\ \E b \in Calls : cbOf(b) # nullptr /\ calls[b].state = "returned"
    /\ pc[t] = "L14"
    /\ called[t] = <<>>

\* the facility routes every event at or above level to the trampoline
RoutesFrom(level) ==
  \A e \in LogEvents : e[2] >= level => c4log_willLog(e[2])

\* C3 as stated: after the latest c4log_setRustCallback(level, cb) call has
\* returned and while no later call has been made, every event at or above
\* level is routed to the trampoline and an event generated since is
\* delivered to cb.
C3_Original ==
  LET k == Len(calls)
  IN  (k >= 1 /\ calls[k].state = "returned") =>
        /\ RoutesFrom(calls[k].level)
        /\ \A t \in Relaying : k \in ev[t].ret => RelaysTo(t, cbOf(k))

\* C3 as amended: after a c4log_setRustCallback(level, cb) call has
\* returned, and for as long as no other call has stored into the sink or
\* registered with the facility after that call did, every event at or
\* above level is routed to the trampoline and an event generated since,
\* on any thread, is delivered to cb.
C3_LastCallReceives ==
  \A c \in Calls :
    (calls[c].state = "returned" /\ lastStore = c /\ lastReg = c) =>
      /\ RoutesFrom(calls[c].level)
      /\ \A t \in Relaying : c \in ev[t].ret => RelaysTo(t, cbOf(c))

\* two events generated after the call returned have been delivered to its
\* callback on two threads, so one of them is not the caller's
C3_Witness ==
  \E c \in Calls :
    /\ calls[c].state = "returned" /\ lastStore = c /\ lastReg = c
    /\ cbOf(c) # nullptr
    /\ \E t, u \in Relaying :
         /\ t # u
         /\ c \in ev[t].ret /\ c \in ev[u].ret
         /\ called[t] # <<>> /\ called[t][1].cb = cbOf(c)
         /\ called[u] # <<>> /\ called[u][1].cb = cbOf(c)

\* the calls that overlap the trampoline invocation on thread t: those that
\* had not returned when it started
Overlapping(t) == {c \in Calls : c \notin ev[t].ret}

\* C4: a value loaded from the sink is the initial empty value or the
\* callback of a call that has stored, whole; when the calls do not overlap
\* one another and exactly one call overlaps a trampoline invocation, the
\* value it loads is the callback installed before that call or the
\* callback of that call.
C4_LoadsWholeValue ==
  /\ \A t \in Threads :
       local[t] \in {unset, nullptr} \cup
                    {cbOf(c) : c \in {x \in Calls : calls[x].state # "invoked"}}
  /\ ~overlapped =>
       \A t \in Relaying : \A c \in Calls :
         Overlapping(t) = {c} => local[t] \in {unset, cbOf(c - 1), cbOf(c)}

\* a trampoline has loaded B while the call that replaces A by B is between
\* its store and its registration
C4_Witness ==
  /\ ~overlapped
  /\ \E t \in Relaying :
       /\ Overlapping(t) = {2}
       /\ cbOf(1) = "A" /\ cbOf(2) = "B"
       /\ local[t] = "B"
       /\ calls[2].state = "stored"

\* C5: every call that reached a callback carries the domain, level and
\* format string of the trampoline invocation that made it, and nothing
\* of the variadic arguments.
C5_TripleForwarded ==
  \A t \in Relaying : \A i \in 1..Len(called[t]) :
    LET r == called[t][i]
    IN  /\ <<r.d, r.l, r.fmt>> = <<ev[t].d, ev[t].l, ev[t].fmt>>
        /\ DOMAIN r = {"cb", "d", "l", "fmt", "t"}

\* two threads are inside the callback at once with different triples
C5_Witness ==
  \E t, u \in Threads :
    /\ pc[t] = "cb" /\ pc[u] = "cb" /\ t # u
    /\ ev[t].fmt # ev[u].fmt
    /\ called[t] # <<>> /\ called[u] # <<>>

\* no callback has been registered: every store so far, if any, stored the
\* empty value, so the sink has been empty since construction
NeverRegistered ==
  \A c \in Calls : calls[c].state # "invoked" => cbOf(c) = nullptr

\* C6: while no callback has ever been registered, a step of a trampoline
\* invocation calls nothing and changes neither the sink, the facility nor
\* the record of the calls: it loads the empty value, fails the test and
\* returns.
C6_EmptySinkNoOp ==
  [][\A t \in Threads :
       (NeverRegistered /\ TrampolineStep(t)) =>
         /\ UNCHANGED <<g_rust_log_callback, lib, calls>>
         /\ called'[t] = <<>>
         /\ pc'[t] \in {"L11", "L14", "idle"}
         /\ local'[t] \in {unset, nullptr}]_vars

\* a trampoline invocation is through although no callback was ever
\* registered
C6_Witness ==
  /\ NeverRegistered
  /\ \E t \in Threads : pc[t] = "L14" /\ called[t] = <<>>

\* C7: a c4log_setRustCallback(level, callback) call has made no
\* registration before line 18 and exactly one from then on, with the
\* caller's level, the trampoline as destination and the flag true.
C7_OneRegistrationPerCall ==
  \A c \in Calls :
    /\ calls[c].state \in {"invoked", "stored"} => calls[c].regs = <<>>
    /\ calls[c].state \in {"registered", "returned"} =>
         calls[c].regs = <<[level |-> calls[c].level,
                            callback |-> "rust_log_callback",
                            flag |-> TRUE]>>
    /\ (lastReg = c /\ calls[c].regs # <<>>) => lib = calls[c].regs[1]

\* calls with an empty and with a non-empty callback, at different levels,
\* have both returned
C7_Witness ==
  \E c, b \in Calls :
    /\ calls[c].state = "returned" /\ cbOf(c) = nullptr
    /\ calls[b].state = "returned" /\ cbOf(b) # nullptr
    /\ calls[c].level # calls[b].level
    /\ Len(calls[c].regs) = 1 /\ Len(calls[b].regs) = 1

\* C8: a trampoline invocation has made no call before line 12, one call
\* while its thread is inside the callback, and from the callback's return
\* to its own return one call if the value it loaded is not empty and none
\* if it is; the call is made on the thread that runs the trampoline.
C8_OneSynchronousCall ==
  \A t \in Threads :
    /\ pc[t] \notin TrampolinePcs => called[t] = <<>>
    /\ pc[t] \in {"L10", "L11", "L12"} => Len(called[t]) = 0
    /\ pc[t] = "cb" => Len(called[t]) = 1
    /\ pc[t] = "L14" =>
         Len(called[t]) = (IF local[t] # nullptr THEN 1 ELSE 0)
    /\ \A i \in 1..Len(called[t]) : called[t][i].t = t

\* one invocation is through after its one call and another after none
C8_Witness ==
  \E t, u \in Threads :
    /\ pc[t] = "L14" /\ Len(called[t]) = 1
    /\ pc[u] = "L14" /\ Len(called[u]) = 0

\* a thread inside an operation can take its next step, whatever the other
\* threads are doing
NonBlocking ==
  \A t \in Threads : pc[t] # "idle" => ENABLED ThreadStep(t)

\* C9: no thread inside c4log_setRustCallback or the trampoline ever waits
\* for another thread, and under fair scheduling every invocation of
\* either returns.
C9_NoWaitAndReturns ==
  /\ []NonBlocking
  /\ \A t \in Threads : (pc[t] # "idle") ~> (pc[t] = "idle")

\* one thread is about to store while another is inside the callback
C9_Witness ==
  \E t, u \in Threads : pc[t] = "L17" /\ pc[u] = "cb"

\* C10: the sink changes only in the store of a c4log_setRustCallback
\* call, which leaves in it the callback argument of that call; the steps
\* of the trampoline, the registration and the return leave it unchanged.
C10_SinkFrame ==
  [][/\ g_rust_log_callback' # g_rust_log_callback =>
          \E t \in Threads : Store(t)
     /\ \A t \in Threads :
          Store(t) => g_rust_log_callback' = cbOf(cur[t])
     /\ \A t \in Threads :
          (TrampolineStep(t) \/ Register(t) \/ ReturnSet(t)) =>
            g_rust_log_callback' = g_rust_log_callback]_vars

\* a trampoline invocation has called the callback and is through, and the
\* sink still holds the callback stored last
C10_Witness ==
  /\ lastStore # 0
  /\ g_rust_log_callback = cbOf(lastStore)
  /\ g_rust_log_callback # nullptr
  /\ \E t \in Threads : pc[t] = "L14" /\ Len(called[t]) = 1

\* C11: the value a trampoline invocation calls is the one value it loaded
\* at line 10 and tested at line 11, and is never empty, whatever the
\* c4log_setRustCallback calls of other threads have stored since.
C11_CallsLoadedNonNull ==
  \A t \in Threads :
    /\ pc[t] \in {"L12", "cb"} => local[t] \in Callbacks
    /\ \A i \in 1..Len(called[t]) :
         called[t][i].cb = local[t] /\ called[t][i].cb \in Callbacks

\* a c4log_setRustCallback(level, nullptr) call stored between the test and
\* the call of an invocation, which is inside the callback it had loaded
\* while the sink is empty
C11_Witness ==
  \E t \in Threads : \E c \in Calls :
    /\ pc[t] = "cb"
    /\ cbOf(c) = nullptr
    /\ c \in ev[t].invoked \ ev[t].tested
    /\ g_rust_log_callback = nullptr
    /\ called[t] # <<>> /\ called[t][1].cb \in Callbacks

\* every c4log_setRustCallback call made so far has returned
AllReturned == Calls # {} /\ \A c \in Calls : calls[c].state = "returned"

\* C12 as stated: once all c4log_setRustCallback calls have returned, some
\* one call passed both the callback held in the sink and the level
\* installed in the facility.
C12_Original ==
  AllReturned =>
    \E c \in Calls :
      g_rust_log_callback = cbOf(c) /\ lib.level = calls[c].level

\* C12 as amended: once all c4log_setRustCallback calls have returned, the
\* sink holds the callback of the call that stored last and the facility
\* holds the level of the call that registered last; these are one call,
\* the latest, when the calls did not overlap one another.
C12_LastStoreAndLastRegistration ==
  AllReturned =>
    /\ g_rust_log_callback = cbOf(lastStore)
    /\ lib = [level |-> calls[lastReg].level,
              callback |-> "rust_log_callback", flag |-> TRUE]
    /\ ~overlapped => (lastStore = Len(calls) /\ lastReg = Len(calls))

\* two overlapping calls have returned; one stored last, the other
\* registered last, and their callbacks and levels differ
C12_Witness ==
  /\ AllReturned /\ overlapped
  /\ lastStore # 0 /\ lastReg # 0 /\ lastStore # lastReg
  /\ cbOf(lastStore) # cbOf(lastReg)
  /\ calls[lastStore].level # calls[lastReg].level

\* the facility has the trampoline installed
Armed == lib.callback = "rust_log_callback"

\* C13: a c4log_setRustCallback call registers the trampoline only after
\* its own store into the sink, so whenever the facility has the trampoline
\* installed at least one store has been performed.
C13_StoreBeforeRegistration ==
  /\ [](Armed => lastStore # 0 /\ lastReg \in Stored)
  /\ [][\A t \in Threads :
          Register(t) => (calls[cur[t]].state = "stored" /\ lastStore # 0)]_vars

\* the trampoline is installed by a call that has stored and registered,
\* while another call has been invoked and has not stored yet
C13_Witness ==
  /\ Armed
  /\ \E c, b \in Calls :
       /\ lastReg = c /\ calls[c].state = "registered"
       /\ calls[b].state = "invoked"
       /\ lastStore = c

\* C14: a trampoline invocation that has loaded a callback calls that
\* callback, once, whatever has been stored into the sink or has returned
\* since; and when the calls do not overlap one another, an invocation
\* overlapped by one call that replaces a callback by another is through
\* after exactly one call, to the replaced or to the new callback.
C14_DeliversToLoaded ==
  \A t \in Relaying :
    /\ (local[t] \in Callbacks /\ pc[t] \in {"cb", "L14"}) =>
         (Len(called[t]) = 1 /\ called[t][1].cb = local[t])
    /\ ~overlapped =>
         \A c \in Calls :
           (/\ Overlapping(t) = {c}
            /\ cbOf(c - 1) \in Callbacks /\ cbOf(c) \in Callbacks
            /\ pc[t] = "L14") =>
             /\ Len(called[t]) = 1
             /\ called[t][1].cb \in {cbOf(c - 1), cbOf(c)}

\* an invocation loaded A, then the call that replaces A by B stored and
\* returned, and only then did the invocation call A
C14_Witness ==
  \E t \in Relaying : \E c \in Calls :
    /\ ~overlapped
    /\ cbOf(c - 1) = "A" /\ cbOf(c) = "B"
    /\ Overlapping(t) = {c}
    /\ c \notin ev[t].loaded
    /\ c \in ev[t].retAtCall
    /\ g_rust_log_callback = "B"
    /\ pc[t] = "L14"
    /\ called[t] # <<>> /\ called[t][1].cb = "A"
====
